---- MODULE Spec2Model ----
(***************************************************************************)
(* hydrano: the HydraConnection session (src/src/hydrano/                   *)
(* hydra_connection.py), the HydraProvider facade (src/src/hydrano/         *)
(* hydra_provider.py) and submitTx of the example provider                  *)
(* (src/examples/instances/hydra_instance.py), as a state machine.          *)
(*                                                                         *)
(* Caller threads call into the session.  connect() runs the transport's   *)
(* run_forever() on the calling thread (hydra_connection.py:52), so the    *)
(* four transport callbacks of a transport fire on the thread that called   *)
(* connect() for it, while that thread is still inside connect().           *)
(* Thread LoopThread is the asyncio event loop that runs the Provider's     *)
(* coroutines; the coroutines hold no await of their own, so each runs to   *)
(* its end on that thread.  The other threads call the session directly.    *)
(***************************************************************************)
EXTENDS Integers, Sequences, FiniteSets, TLC

\* ------------------------------------------------------------------ bounds
NumCallers == 2
MaxCalls == 2
MaxFrames == 2
MaxTime == 5
NumMsgHandlers == 2
NumStatusHandlers == 1

\* ------------------------------------------------------- program constants
RetryWindow == 5
SleepSeconds == 1

Callers == 1..NumCallers
LoopThread == 1
Transports == 1..MaxCalls
MsgHandlers == 1..NumMsgHandlers
StatusHandlers == 1..NumStatusHandlers
NoTransport == 0
NoTime == 0 - 1

\* The Provider's lifecycle commands and the tag each sends
\* (hydra_provider.py:56-84).
LifecycleCommands == {"init", "abort", "close", "contest", "fanout"}
CommandTag(op) ==
    CASE op = "init" -> "Init"
      [] op = "abort" -> "Abort"
      [] op = "close" -> "Close"
      [] op = "contest" -> "Contest"
      [] op = "fanout" -> "Fanout"

\* What a caller of the session hands to send().
SendPayloads == {"Data"}

\* The inbound frames the node streams: status-bearing tags, a tag with no
\* status implication, validation events for payloads P and Q, and a frame
\* that is not JSON.
TxPayloads == {"P", "Q"}
NoFrame == [tag |-> "none", cborHex |-> "", detail |-> ""]
\* The txId a TxValid event carries, the validationError a TxInvalid one does.
EventDetail(tag, p) ==
    CASE tag = "TxValid" /\ p = "P" -> "txId of P"
      [] tag = "TxValid" /\ p = "Q" -> "txId of Q"
      [] tag = "TxInvalid" /\ p = "P" -> "validationError of P"
      [] tag = "TxInvalid" /\ p = "Q" -> "validationError of Q"
InboundFrames ==
    {[tag |-> g, cborHex |-> "", detail |-> ""] : g \in {"HeadIsOpen", "Greetings", "garbage"}}
    \cup {[tag |-> g, cborHex |-> p, detail |-> EventDetail(g, p)] :
             g \in {"TxValid", "TxInvalid"}, p \in TxPayloads}

VARIABLES
    status,      \* HydraConnection._status
    connected,   \* HydraConnection._connected
    websocket,   \* HydraConnection._websocket: a transport, or NoTransport (None)
    sock,        \* per transport: "none" (not created), "init" (created, socket not
                 \* connected), "open" (sock.connected), "closing" (socket closed,
                 \* on_close not yet called), "closed"
    openedAt,    \* per transport: the time its socket connected
    written,     \* per transport: the frames written to it, in order
    nTransports, \* WebSocketApp objects created so far
    pstatus,     \* HydraProvider._status
    pc,          \* per caller thread: where it is
    run,         \* per caller thread: the transport whose run_forever it is in
    snd,         \* per caller thread: the locals of its send() call
    dsp,         \* per caller thread: the frame its _on_message is dispatching
    ret,         \* per caller thread: the outcome of its last finished call
    submit,      \* the submitTx call of the example provider
    now,         \* seconds, advancing while a send() sleeps
    nFrames,     \* inbound frames received so far
    nCalls,      \* calls made by the callers so far
    pOpened,     \* transports HydraProvider.connect() has had created
    pasked,      \* the channels a handler was handed to the Provider for
    cfg,         \* the arguments HydraConnection was constructed with
    websocket_url, \* HydraConnection._websocket_url
    http,        \* the last get()/post() of the Provider: the response and the outcome
    inst         \* the last call of a HydraInstance operation: arguments and outcome

vars == <<status, connected, websocket, sock, openedAt, written, nTransports,
          pstatus, pc, run, snd, dsp, ret, submit, now, nFrames, nCalls, pOpened,
          pasked, cfg, websocket_url, http, inst>>

\* What the session's and the Provider's calls below leave alone.
fixed == <<cfg, websocket_url, http, inst>>

session == <<status, connected, websocket>>

\* --------------------------------------------------------- pure functions

\* hydra_status(message): the status a tag implies, "" when it implies none.
hydra_status(tag) ==
    CASE tag = "HeadIsInitializing" -> "INITIALIZING"
      [] tag = "HeadIsOpen" -> "OPEN"
      [] tag = "HeadIsClosed" -> "CLOSED"
      [] tag = "ReadyToFanout" -> "FANOUT_POSSIBLE"
      [] tag = "HeadIsFinalized" -> "FINAL"
      [] OTHER -> ""

\* json.loads(message) succeeds (hydra_connection.py:129).
Decodes_All(frame) == TRUE
Decodes(frame) == frame.tag # "garbage"

\* send_data's test (hydra_connection.py:64; the same test at line 90):
\* self._websocket and self._websocket.sock and self._websocket.sock.connected
TransportOpen == websocket # NoTransport /\ sock[websocket] = "open"

\* The retry loop's condition (hydra_connection.py:74).
RetryLoopCond_Inclusive(elapsed) == elapsed <= RetryWindow
RetryLoopCond_Short(elapsed) == elapsed < RetryWindow - SleepSeconds
RetryLoopCond(elapsed) == elapsed < RetryWindow

NoSend == [op |-> "none", data |-> "none", k |-> 0, start |-> NoTime, wake |-> 0,
           called |-> NoTime, wrote |-> FALSE]
NoDispatch == [frame |-> NoFrame, msgTo |-> {}, statusSet |-> FALSE, statTo |-> {},
               afterSubmit |-> FALSE]
NoRet == [op |-> "none", outcome |-> "none", t |-> NoTransport, at |-> ""]
NoSubmit == [state |-> "none", cborHex |-> "", sent |-> FALSE, value |-> ""]

\* ------------------------------- HydraConnection.__init__, lines 31-34

\* Strings are sequences of tokens chosen so that "http" occurs in them as a
\* whole token or not at all; None is a token sequence of its own.
None == <<"None">>
Truthy(x) == x # None /\ x # <<>>

\* str.replace(old, new): every occurrence is replaced.
Replace(u, old, new) == [i \in 1..Len(u) |-> IF u[i] = old THEN new ELSE u[i]]

\* Lines 31-34: ws_url if given, else http_url.replace("http", "ws"); then
\* "/?history=yes|no"; then "&address=..." if address.
WebsocketUrl(a) ==
    LET ws_url == IF Truthy(a.ws_url) THEN a.ws_url ELSE Replace(a.http_url, "http", "ws")
        history_param == <<"history=", IF a.history THEN "yes" ELSE "no">>
        address_param == IF Truthy(a.address) THEN <<"&address=">> \o a.address ELSE <<>>
    IN  ws_url \o <<"/?">> \o history_param \o address_param

\* The arguments of the test fixture (tests/hydrano/test_hydra_connection.py:
\* 19-25), with which the session of Spec is constructed.
FixtureConfig ==
    [http_url |-> <<"http", "://", "194.195.87.66:4001">>,
     history |-> TRUE,
     address |-> <<>>,
     ws_url |-> <<"ws", "://", "194.195.87.66:4001">>]

\* The arguments the constructor is tried with.
HttpUrls ==
    {<<"http", "://", "node:4001">>,
     <<"http", "s", "://", "node:4001">>,
     <<"http", "://", "my", "http", "node:4001">>,
     <<"http", "://", "194.195.87.66:4001">>}
Configs ==
    [http_url : HttpUrls,
     history : BOOLEAN,
     address : {None, <<>>, <<"addr1">>},
     ws_url : {None, <<>>, <<"ws", "://", "194.195.87.66:4001">>}]

Unset == <<"unset">>

\* ------------------------- HydraProvider.get / post, lines 182-216

\* What the HTTP session answers: a response with a status code and a body,
\* or a network-level failure (requests raises).
StatusCodes == {200, 202, 204, 404, 500}
SuccessCodes == {200, 202}
Bodies == {"{\"ok\": 1}", "Internal Server Error", ""}
NoResponse == [kind |-> "none", status_code |-> 0, body |-> ""]
Responses ==
    {[kind |-> "response", status_code |-> n, body |-> b] : n \in StatusCodes, b \in Bodies}
    \cup {[kind |-> "failure", status_code |-> 0, body |-> ""]}

\* response.json() returns the body when it is JSON and raises otherwise.
IsJson(body) == body = "{\"ok\": 1}"

\* parse_error(x): the error of the one taxonomy, with x attached.
parse_error(x) == <<"RequestFailure">> \o x

NoHttp == [method |-> "none", resp |-> NoResponse, outcome |-> "none", value |-> <<>>]

\* The body of get and of post, lines 190-196 and 210-216: the raise of
\* line 194 (214) is inside the try, so the except of line 195 (215)
\* catches it and line 196 (216) wraps it again.
Request(method, resp) ==
    LET raised(e) == [method |-> method, resp |-> resp, outcome |-> "raised",
                      value |-> parse_error(e)]
    IN  IF resp.kind = "failure" THEN raised(<<"ConnectionError">>)
        ELSE IF ~IsJson(resp.body) THEN raised(<<"JSONDecodeError">>)
        ELSE IF resp.status_code \in SuccessCodes
             THEN [method |-> method, resp |-> resp, outcome |-> "returned",
                   value |-> <<resp.body>>]
        ELSE raised(parse_error(<<resp.body>>))

\* ------------------------------------------ HydraInstance, hydra_instance.py

\* The values of HydraTransaction's fields (types/hydra_transaction.py:7-10).
TransactionTypes == {"Tx ConwayEra", "Unwitnessed Tx ConwayEra", "Witnessed Tx ConwayEra"}
Descriptions == {"", "a description"}
TxIds == {"None", "txid1"}

\* The HydraTransaction objects: the attributes are those of the dataclass.
HydraTransactions ==
    [cborHex : TxPayloads, type : TransactionTypes, description : Descriptions, txId : TxIds]
NoTransaction == [cborHex |-> "", type |-> "", description |-> "", txId |-> ""]

TxHashes == {"hash1", "hash2"}
OutputIndexes == {0, 1}

\* A method whose body is its docstring alone returns None.
DocstringOnly == [outcome |-> "returned", value |-> "None"]

AttributeError == [outcome |-> "raised", value |-> "AttributeError"]

\* obj.name is defined.
HasAttr(obj, name) == name \in DOMAIN obj

\* commit_funds, lines 45-53.
commit_funds_result(tx_hash, output_index) == DocstringOnly

\* incremental_commit_funds, line 68.
incremental_commit_funds_result(tx_hash, output_index) ==
    commit_funds_result(tx_hash, output_index)

\* commit_blueprint, lines 70-91.
commit_blueprint_result(tx_hash, output_index, transaction) == DocstringOnly

\* The attributes that lines 117-120 read, in order.
BlueprintAttrs == <<"type", "cbor_hex", "description", "tx_id">>

\* incremental_blueprint_commit, lines 116-121: the dict is built from the
\* transaction's attributes before commit_blueprint is called.
incremental_blueprint_commit_result(tx_hash, output_index, transaction) ==
    IF \E i \in 1..Len(BlueprintAttrs) : ~HasAttr(transaction, BlueprintAttrs[i])
    THEN AttributeError
    ELSE commit_blueprint_result(tx_hash, output_index, transaction)

\* decommit, lines 123-135.
decommit_result(transaction) == DocstringOnly

\* incremental_decommit, line 147.
incremental_decommit_result(transaction) == decommit_result(transaction)

NoCall == [op |-> "none", outcome |-> "none", value |-> "",
           tx_hash |-> "", output_index |-> 0, transaction |-> NoTransaction]

\* The record of a call that ended with result r.
Called(op, tx_hash, output_index, transaction, r) ==
    [op |-> op, outcome |-> r.outcome, value |-> r.value,
     tx_hash |-> tx_hash, output_index |-> output_index, transaction |-> transaction]

\* The fields as the constructors leave them (hydra_connection.py:35-38,
\* hydra_provider.py:43), with no call made yet.
FieldsInit ==
    /\ status = "IDLE"
    /\ connected = FALSE
    /\ websocket = NoTransport
    /\ sock = [t \in Transports |-> "none"]
    /\ openedAt = [t \in Transports |-> NoTime]
    /\ written = [t \in Transports |-> <<>>]
    /\ nTransports = 0
    /\ pstatus = "DISCONNECTED"
    /\ pc = [c \in Callers |-> "idle"]
    /\ run = [c \in Callers |-> NoTransport]
    /\ snd = [c \in Callers |-> NoSend]
    /\ dsp = [c \in Callers |-> NoDispatch]
    /\ ret = [c \in Callers |-> NoRet]
    /\ submit = NoSubmit
    /\ now = 0
    /\ nFrames = 0
    /\ nCalls = 0
    /\ pOpened = 0
    /\ pasked = {}

Init ==
    /\ FieldsInit
    /\ cfg = FixtureConfig
    /\ websocket_url = WebsocketUrl(FixtureConfig)
    /\ http = NoHttp
    /\ inst = NoCall

\* ------------------------------------------------- HydraConnection.connect

\* connect(), lines 44-50: a new WebSocketApp becomes the handle.  No test
\* of the current status guards it.
SessionConnectBody(c, via) ==
    /\ nCalls < MaxCalls
    /\ nCalls' = nCalls + 1
    /\ nTransports' = nTransports + 1
    /\ websocket' = nTransports + 1
    /\ run' = [run EXCEPT ![c] = nTransports + 1]
    /\ pc' = [pc EXCEPT ![c] = "connect_status"]
    /\ ret' = [ret EXCEPT ![c] = [op |-> via, outcome |-> "running", t |-> nTransports + 1, at |-> ""]]
    /\ UNCHANGED <<status, connected, sock, openedAt, written, snd, dsp, submit, now, nFrames>>

connect(c) ==
    /\ c # LoopThread
    /\ pc[c] = "idle"
    /\ SessionConnectBody(c, "connect")
    /\ UNCHANGED <<pstatus, pOpened, pasked, fixed>>

\* connect(), lines 51-52: the status becomes CONNECTING and the caller
\* enters run_forever, which creates the socket.
ConnectStatus(c) ==
    /\ pc[c] = "connect_status"
    /\ status' = "CONNECTING"
    /\ sock' = [sock EXCEPT ![run[c]] = "init"]
    /\ pc' = [pc EXCEPT ![c] = "run_forever"]
    /\ UNCHANGED <<connected, websocket, openedAt, written, nTransports, pstatus,
                   run, snd, dsp, ret, submit, now, nFrames, nCalls, pOpened, pasked, fixed>>

\* run_forever returns once on_close has run, and connect() returns with it:
\* to its caller, or to line 96 of HydraProvider.connect.
ConnectReturn(c) ==
    /\ pc[c] = "ret_connect"
    /\ pc' = [pc EXCEPT ![c] = IF ret[c].op = "provider_connect" THEN "p_connected" ELSE "idle"]
    /\ ret' = [ret EXCEPT ![c] = IF ret[c].op = "provider_connect" THEN ret[c] ELSE NoRet]
    /\ run' = [run EXCEPT ![c] = NoTransport]
    /\ UNCHANGED <<status, connected, websocket, sock, openedAt, written, nTransports,
                   pstatus, snd, dsp, submit, now, nFrames, nCalls, pOpened, pasked, fixed>>

\* A call that has ended hands its outcome to its caller.
Return(c) ==
    /\ pc[c] = "ret"
    /\ pc' = [pc EXCEPT ![c] = "idle"]
    /\ ret' = [ret EXCEPT ![c] = NoRet]
    /\ snd' = [snd EXCEPT ![c] = NoSend]
    /\ UNCHANGED <<status, connected, websocket, sock, openedAt, written, nTransports,
                   pstatus, run, dsp, submit, now, nFrames, nCalls, pOpened, pasked, fixed>>

\* ------------------------------------------- the transport, in run_forever

\* The handshake completes: the socket is connected, on_open is due.
HandshakeOk(c) ==
    /\ pc[c] = "run_forever"
    /\ sock[run[c]] = "init"
    /\ sock' = [sock EXCEPT ![run[c]] = "open"]
    /\ openedAt' = [openedAt EXCEPT ![run[c]] = now]
    /\ pc' = [pc EXCEPT ![c] = "cb_open"]
    /\ UNCHANGED <<status, connected, websocket, written, nTransports, pstatus,
                   run, snd, dsp, ret, submit, now, nFrames, nCalls, pOpened, pasked, fixed>>

\* The handshake fails, or the open connection breaks: the socket is dead
\* and on_error is due (on_close follows from run_forever's teardown).
TransportError(c) ==
    /\ pc[c] = "run_forever"
    /\ sock[run[c]] \in {"init", "open"}
    /\ sock' = [sock EXCEPT ![run[c]] = "closing"]
    /\ pc' = [pc EXCEPT ![c] = "cb_error"]
    /\ UNCHANGED <<status, connected, websocket, openedAt, written, nTransports, pstatus,
                   run, snd, dsp, ret, submit, now, nFrames, nCalls, pOpened, pasked, fixed>>

\* The node closes the connection.
RemoteClose(c) ==
    /\ pc[c] = "run_forever"
    /\ sock[run[c]] = "open"
    /\ sock' = [sock EXCEPT ![run[c]] = "closing"]
    /\ UNCHANGED <<status, connected, websocket, openedAt, written, nTransports, pstatus,
                   pc, run, snd, dsp, ret, submit, now, nFrames, nCalls, pOpened, pasked, fixed>>

\* A frame arrives on the open connection: _on_message is due.  afterSubmit
\* notes whether submitTx's NewTx frame had been written by then.
Receive(c, frame) ==
    /\ pc[c] = "run_forever"
    /\ sock[run[c]] = "open"
    /\ nFrames < MaxFrames
    /\ nFrames' = nFrames + 1
    /\ dsp' = [dsp EXCEPT ![c] = [NoDispatch EXCEPT !.frame = frame,
                                                    !.afterSubmit = submit.sent]]
    /\ pc' = [pc EXCEPT ![c] = "cb_message"]
    /\ UNCHANGED <<status, connected, websocket, sock, openedAt, written, nTransports,
                   pstatus, run, snd, ret, submit, now, nCalls, pOpened, pasked, fixed>>

\* _on_open: line 114, then line 115.
on_open(c) ==
    /\ \/ /\ pc[c] = "cb_open"
          /\ connected' = TRUE
          /\ status' = status
          /\ pc' = [pc EXCEPT ![c] = "cb_open_status"]
       \/ /\ pc[c] = "cb_open_status"
          /\ status' = "CONNECTED"
          /\ connected' = connected
          /\ pc' = [pc EXCEPT ![c] = "run_forever"]
    /\ UNCHANGED <<websocket, sock, openedAt, written, nTransports, pstatus,
                   run, snd, dsp, ret, submit, now, nFrames, nCalls, pOpened, pasked, fixed>>

\* An _on_error that also treated the error as the end of the connection.
on_error_AsClose(c) ==
    /\ pc[c] = "cb_error"
    /\ connected' = FALSE
    /\ status' = "DISCONNECTED"
    /\ pc' = [pc EXCEPT ![c] = "run_forever"]
    /\ dsp' = [dsp EXCEPT ![c] = NoDispatch]
    /\ UNCHANGED <<websocket, sock, openedAt, written, nTransports, pstatus,
                   run, snd, ret, submit, now, nFrames, nCalls, pOpened, pasked, fixed>>

\* _on_error, line 146.
on_error(c) ==
    /\ pc[c] = "cb_error"
    /\ connected' = FALSE
    /\ pc' = [pc EXCEPT ![c] = "run_forever"]
    /\ dsp' = [dsp EXCEPT ![c] = NoDispatch]
    /\ UNCHANGED <<status, websocket, sock, openedAt, written, nTransports, pstatus,
                   run, snd, ret, submit, now, nFrames, nCalls, pOpened, pasked, fixed>>

\* run_forever() is called with no reconnect argument (line 52): once the
\* socket has closed and on_close has run, it returns.
RunForeverReconnect_On == TRUE
RunForeverReconnect == FALSE

\* _on_close, called by run_forever's teardown once the socket is closed (by
\* the node, by an error, or by disconnect()'s close()): line 159, then
\* line 160.
on_close(c) ==
    /\ \/ /\ pc[c] = "run_forever"
          /\ sock[run[c]] = "closing"
          /\ status' = "DISCONNECTED"
          /\ connected' = connected
          /\ sock' = [sock EXCEPT ![run[c]] = "closed"]
          /\ pc' = [pc EXCEPT ![c] = "cb_close_flag"]
       \/ /\ pc[c] = "cb_close_flag"
          /\ connected' = FALSE
          /\ status' = status
          /\ IF RunForeverReconnect
             THEN /\ sock' = [sock EXCEPT ![run[c]] = "init"]
                  /\ pc' = [pc EXCEPT ![c] = "run_forever"]
             ELSE /\ sock' = sock
                  /\ pc' = [pc EXCEPT ![c] = "ret_connect"]
    /\ UNCHANGED <<websocket, openedAt, written, nTransports, pstatus,
                   run, snd, dsp, ret, submit, now, nFrames, nCalls, pOpened, pasked, fixed>>

\* --------------------------------------------- _on_message, lines 128-134

\* A handler raised inside emit: the exception leaves _on_message (which
\* catches json.JSONDecodeError only) and reaches the transport's callback
\* wrapper, which logs it and, depending on the library's version, calls
\* on_error.
AfterHandlerRaised == {"cb_error", "cb_done"}

\* Lines 129-131: decode, then emit "onmessage".  pyee calls the handlers in
\* subscription order and an exception of one ends the emit: failing = 0
\* when none raises, else the first handler that does.
EmitMessage(c, from, to) ==
    /\ pc[c] = from
    /\ IF ~Decodes(dsp[c].frame)
       THEN /\ pc' = [pc EXCEPT ![c] = "cb_done"]
            /\ dsp' = dsp
       ELSE \E failing \in 0..NumMsgHandlers :
              IF failing = 0
              THEN /\ dsp' = [dsp EXCEPT ![c].msgTo = MsgHandlers]
                   /\ pc' = [pc EXCEPT ![c] = to]
              ELSE /\ dsp' = [dsp EXCEPT ![c].msgTo = 1..failing]
                   /\ \E next \in AfterHandlerRaised : pc' = [pc EXCEPT ![c] = next]
    /\ UNCHANGED <<status, connected, websocket, sock, openedAt, written, nTransports,
                   pstatus, run, snd, ret, submit, now, nFrames, nCalls, pOpened, pasked, fixed>>

\* process_status's test, line 103: if status.
ImpliesStatus_Always(st) == TRUE
ImpliesStatus(st) == st # ""

\* process_status, lines 102-105: a non-empty classification becomes the
\* status and is emitted as "onstatuschange".
ProcessStatus(c, from, to) ==
    /\ pc[c] = from
    /\ IF ~ImpliesStatus(hydra_status(dsp[c].frame.tag))
       THEN /\ pc' = [pc EXCEPT ![c] = to]
            /\ UNCHANGED <<status, dsp>>
       ELSE /\ status' = hydra_status(dsp[c].frame.tag)
            /\ \E failing \in 0..NumStatusHandlers :
                 IF failing = 0
                 THEN /\ dsp' = [dsp EXCEPT ![c].statusSet = TRUE, ![c].statTo = StatusHandlers]
                      /\ pc' = [pc EXCEPT ![c] = to]
                 ELSE /\ dsp' = [dsp EXCEPT ![c].statusSet = TRUE, ![c].statTo = 1..failing]
                      /\ \E next \in AfterHandlerRaised : pc' = [pc EXCEPT ![c] = next]
    /\ UNCHANGED <<connected, websocket, sock, openedAt, written, nTransports,
                   pstatus, run, snd, ret, submit, now, nFrames, nCalls, pOpened, pasked, fixed>>

on_message_StatusFirst(c) ==
    \/ ProcessStatus(c, "cb_message", "cb_status")
    \/ EmitMessage(c, "cb_status", "cb_done")

on_message(c) ==
    \/ EmitMessage(c, "cb_message", "cb_status")
    \/ ProcessStatus(c, "cb_status", "cb_done")

\* The callback is over and run_forever reads on.
CallbackReturn(c) ==
    /\ pc[c] = "cb_done"
    /\ pc' = [pc EXCEPT ![c] = "run_forever"]
    /\ dsp' = [dsp EXCEPT ![c] = NoDispatch]
    /\ UNCHANGED <<status, connected, websocket, sock, openedAt, written, nTransports,
                   pstatus, run, snd, ret, submit, now, nFrames, nCalls, pOpened, pasked, fixed>>

\* ------------------------------------------ HydraConnection.send, 61-81

\* send() ends: it returns (delivered or having printed the failure), or the
\* exception of a write on a closed socket leaves it.  The call of newTx
\* inside submitTx goes on to await what send returned.
SendFinish(c, outcome) ==
    /\ ret' = [ret EXCEPT ![c].outcome = outcome]
    /\ pc' = [pc EXCEPT ![c] = IF snd[c].op = "submitTx" THEN "submit_await" ELSE "ret"]

SendBegin(c, op, data) ==
    /\ pc[c] = "idle"
    /\ nCalls < MaxCalls
    /\ now + RetryWindow <= MaxTime
    /\ nCalls' = nCalls + 1
    /\ snd' = [snd EXCEPT ![c] = [NoSend EXCEPT !.op = op, !.data = data, !.called = now]]
    /\ ret' = [ret EXCEPT ![c] = [op |-> op, outcome |-> "running", t |-> NoTransport, at |-> ""]]
    /\ pc' = [pc EXCEPT ![c] = "send_check"]
    /\ UNCHANGED <<status, connected, websocket, sock, openedAt, written, nTransports,
                   pstatus, run, dsp, now, nFrames, pOpened, pasked, fixed>>

\* send(data) called on the session directly.
send(c, data) ==
    /\ c # LoopThread
    /\ SendBegin(c, "send", data)
    /\ UNCHANGED submit

\* send_data's test, line 64, at line 69 (the immediate attempt) or line 75
\* (a retry).  After the immediate attempt fails, line 73 takes start_time
\* and line 74 tests the loop's condition; after a retry fails, line 78
\* sleeps.
SendCheck(c) ==
    /\ pc[c] = "send_check"
    /\ IF TransportOpen
       THEN /\ snd' = [snd EXCEPT ![c].k = @ + 1]
            /\ pc' = [pc EXCEPT ![c] = "send_write"]
            /\ ret' = ret
       ELSE IF snd[c].start = NoTime
       THEN /\ snd' = [snd EXCEPT ![c].k = @ + 1, ![c].start = now]
            /\ IF RetryLoopCond(0)
               THEN pc' = [pc EXCEPT ![c] = "send_check"] /\ ret' = ret
               ELSE SendFinish(c, "failed")
       ELSE /\ snd' = [snd EXCEPT ![c].k = @ + 1, ![c].wake = now + SleepSeconds]
            /\ pc' = [pc EXCEPT ![c] = "send_sleep"]
            /\ ret' = ret
    /\ UNCHANGED <<status, connected, websocket, sock, openedAt, written, nTransports,
                   pstatus, run, dsp, submit, now, nFrames, nCalls, pOpened, pasked, fixed>>

\* time.sleep(1) is over; line 74 tests the loop's condition again, and when
\* it fails line 81 prints the failure and send returns.
SendWake(c) ==
    /\ pc[c] = "send_sleep"
    /\ now >= snd[c].wake
    /\ IF RetryLoopCond(now - snd[c].start)
       THEN pc' = [pc EXCEPT ![c] = "send_check"] /\ ret' = ret
       ELSE SendFinish(c, "failed")
    /\ UNCHANGED <<status, connected, websocket, sock, openedAt, written, nTransports,
                   pstatus, run, snd, dsp, submit, now, nFrames, nCalls, pOpened, pasked, fixed>>

\* The write, line 65: self._websocket is read again; WebSocketApp.send
\* raises WebSocketConnectionClosedException when its socket is gone, and
\* nothing in send catches it.
SendWrite(c) ==
    /\ pc[c] = "send_write"
    /\ IF TransportOpen
       THEN /\ written' = [written EXCEPT ![websocket] = Append(@, snd[c].data)]
            /\ snd' = [snd EXCEPT ![c].wrote = TRUE]
            /\ SendFinish(c, "sent")
       ELSE /\ UNCHANGED <<written, snd>>
            /\ SendFinish(c, "raised")
    /\ UNCHANGED <<status, connected, websocket, sock, openedAt, nTransports,
                   pstatus, run, dsp, submit, now, nFrames, nCalls, pOpened, pasked, fixed>>

\* A second passes.  The test and the write of send take no time against
\* its one-second sleeps, so time stands while a send has a step to take.
Tick ==
    /\ now < MaxTime
    /\ \E c \in Callers : pc[c] = "send_sleep"
    /\ \A c \in Callers : pc[c] \notin {"send_check", "send_write"}
    /\ \A c \in Callers : pc[c] = "send_sleep" => now < snd[c].wake
    /\ now' = now + 1
    /\ UNCHANGED <<status, connected, websocket, sock, openedAt, written, nTransports,
                   pstatus, pc, run, snd, dsp, ret, submit, nFrames, nCalls, pOpened, pasked, fixed>>

\* -------------------------------------- HydraConnection.disconnect, 88-93

\* Lines 88-91: nothing when the status is IDLE; else close(status=1007) when
\* the socket is connected.
DisconnectIdleTest_Never == FALSE
DisconnectIdleTest == status = "IDLE"

disconnect(c) ==
    /\ c # LoopThread
    /\ pc[c] = "idle"
    /\ nCalls < MaxCalls
    /\ nCalls' = nCalls + 1
    /\ IF DisconnectIdleTest
       THEN /\ ret' = [ret EXCEPT ![c] = [op |-> "disconnect", outcome |-> "noop",
                                           t |-> websocket, at |-> status]]
            /\ pc' = [pc EXCEPT ![c] = "ret"]
            /\ sock' = sock
       ELSE /\ ret' = [ret EXCEPT ![c] = [op |-> "disconnect", outcome |-> "running",
                                           t |-> websocket, at |-> status]]
            /\ pc' = [pc EXCEPT ![c] = "disc_status"]
            /\ sock' = IF TransportOpen THEN [sock EXCEPT ![websocket] = "closing"] ELSE sock
    /\ UNCHANGED <<status, connected, websocket, openedAt, written, nTransports,
                   pstatus, run, snd, dsp, submit, now, nFrames, pOpened, pasked, fixed>>

\* Line 92, then line 93.  The handle self._websocket is left as it is.
DisconnectSet(c) ==
    /\ \/ /\ pc[c] = "disc_status"
          /\ status' = "IDLE"
          /\ UNCHANGED <<connected, ret>>
          /\ pc' = [pc EXCEPT ![c] = "disc_flag"]
       \/ /\ pc[c] = "disc_flag"
          /\ connected' = FALSE
          /\ status' = status
          /\ ret' = [ret EXCEPT ![c].outcome = "returned"]
          /\ pc' = [pc EXCEPT ![c] = "ret"]
    /\ UNCHANGED <<websocket, sock, openedAt, written, nTransports,
                   pstatus, run, snd, dsp, submit, now, nFrames, nCalls, pOpened, pasked, fixed>>

\* ------------------------------------------------------- HydraProvider

\* connect()'s test, hydra_provider.py:93.
ProviderConnectGuard_Always == TRUE
ProviderConnectGuard == pstatus = "DISCONNECTED"

\* HydraProvider.connect, lines 93-95: return unless DISCONNECTED, else call
\* the session's connect(), which returns when run_forever does.
provider_connect(c) ==
    /\ c = LoopThread
    /\ pc[c] = "idle"
    /\ pstatus' = pstatus
    /\ UNCHANGED <<pasked, fixed>>
    /\ IF ProviderConnectGuard
       THEN /\ SessionConnectBody(c, "provider_connect")
            /\ pOpened' = pOpened + 1
       ELSE /\ nCalls < MaxCalls
            /\ nCalls' = nCalls + 1
            /\ ret' = [ret EXCEPT ![c] = [op |-> "provider_connect", outcome |-> "noop", t |-> NoTransport, at |-> ""]]
            /\ pc' = [pc EXCEPT ![c] = "ret"]
            /\ UNCHANGED <<status, connected, websocket, sock, openedAt, written, nTransports,
                           run, snd, dsp, submit, now, nFrames, pOpened>>

\* HydraProvider.connect, line 96, reached when the session's connect() has
\* returned.
ProviderConnected(c) ==
    /\ pc[c] = "p_connected"
    /\ pstatus' = "CONNECTED"
    /\ pc' = [pc EXCEPT ![c] = "ret"]
    /\ ret' = [ret EXCEPT ![c].outcome = "returned"]
    /\ UNCHANGED <<status, connected, websocket, sock, openedAt, written, nTransports,
                   run, snd, dsp, submit, now, nFrames, nCalls, pOpened, pasked, fixed>>

\* The handler a caller hands to the Provider's on_message or
\* on_status_change; the handlers in MsgHandlers and StatusHandlers were put
\* on the event emitter itself.
ProviderHandler == 0

\* HydraProvider.on_message / on_status_change, hydra_provider.py:168-180:
\* each body is its docstring, so the callback is dropped and the emitter's
\* handlers stay as they are.
ProviderSubscribe(c, channel) ==
    /\ c = LoopThread
    /\ pc[c] = "idle"
    /\ channel \notin pasked
    /\ nCalls < MaxCalls
    /\ nCalls' = nCalls + 1
    /\ pasked' = pasked \cup {channel}
    /\ UNCHANGED <<status, connected, websocket, sock, openedAt, written, nTransports,
                   pstatus, pc, run, snd, dsp, ret, submit, now, nFrames, pOpened, fixed>>

provider_on_message(c) == ProviderSubscribe(c, "onmessage")

provider_on_status_change(c) == ProviderSubscribe(c, "onstatuschange")

\* init / abort / close / contest / fanout, hydra_provider.py:56-84.
command(c, op) ==
    /\ c = LoopThread
    /\ SendBegin(c, op, CommandTag(op))
    /\ UNCHANGED submit

\* The field names of the dataclass HydraTransaction
\* (types/hydra_transaction.py:5-10), and the keys of the dict that new_tx
\* builds in its place (hydra_provider.py:158-163).
HydraTransactionFields == {"type", "description", "cborHex", "txId"}
NewTxKeys == {"type", "description", "cbor_hex", "tx_id"}

\* HydraProvider.new_tx, hydra_provider.py:147-166: the payload of lines
\* 158-164 goes to the session's send(), whose return ends the call.
new_tx(c, tx) ==
    /\ c = LoopThread
    /\ SendBegin(c, "new_tx", [tag |-> "NewTx", keys |-> NewTxKeys, cborHex |-> tx])
    /\ UNCHANGED submit

\* ------------------ submitTx, examples/instances/hydra_instance.py:84-98

\* Line 85 calls newTx, whose line 113 calls the session's send() with the
\* NewTx payload.
submitTx(c, tx) ==
    /\ c = LoopThread
    /\ submit.state = "none"
    /\ SendBegin(c, "submitTx", "NewTx")
    /\ submit' = [NoSubmit EXCEPT !.state = "newTx", !.cborHex = tx]

\* newTx line 113 awaits what send() returned, which is None: TypeError.  It
\* (or the exception that left send) is caught at line 97 and raised again
\* at line 98; lines 86-96, the subscription, are never reached.
SubmitAwait(c) ==
    /\ pc[c] = "submit_await"
    /\ submit' = [submit EXCEPT !.state = "raised",
                                !.sent = (ret[c].outcome = "sent"),
                                !.value = IF ret[c].outcome = "raised"
                                          THEN "WebSocketConnectionClosedException"
                                          ELSE "TypeError"]
    /\ ret' = [ret EXCEPT ![c] = [op |-> "submitTx ended", outcome |-> "raised",
                               t |-> NoTransport, at |-> ""]]
    /\ pc' = [pc EXCEPT ![c] = "ret"]
    /\ UNCHANGED <<status, connected, websocket, sock, openedAt, written, nTransports,
                   pstatus, run, snd, dsp, now, nFrames, nCalls, pOpened, pasked, fixed>>

\* ---------------------------------------------------------------- system

Next ==
    \/ \E c \in Callers : connect(c)
    \/ \E c \in Callers : ConnectStatus(c)
    \/ \E c \in Callers : ConnectReturn(c)
    \/ \E c \in Callers : Return(c)
    \/ \E c \in Callers : HandshakeOk(c)
    \/ \E c \in Callers : TransportError(c)
    \/ \E c \in Callers : RemoteClose(c)
    \/ \E c \in Callers, frame \in InboundFrames : Receive(c, frame)
    \/ \E c \in Callers : on_open(c)
    \/ \E c \in Callers : on_message(c)
    \/ \E c \in Callers : CallbackReturn(c)
    \/ \E c \in Callers : on_error(c)
    \/ \E c \in Callers : on_close(c)
    \/ \E c \in Callers, data \in SendPayloads : send(c, data)
    \/ \E c \in Callers : SendCheck(c)
    \/ \E c \in Callers : SendWake(c)
    \/ \E c \in Callers : SendWrite(c)
    \/ Tick
    \/ \E c \in Callers : disconnect(c)
    \/ \E c \in Callers : DisconnectSet(c)
    \/ \E c \in Callers : provider_connect(c)
    \/ \E c \in Callers : ProviderConnected(c)
    \/ \E c \in Callers : provider_on_message(c)
    \/ \E c \in Callers : provider_on_status_change(c)
    \/ \E c \in Callers, op \in LifecycleCommands : command(c, op)
    \/ \E c \in Callers, tx \in TxPayloads : new_tx(c, tx)
    \/ \E c \in Callers, tx \in TxPayloads : submitTx(c, tx)
    \/ \E c \in Callers : SubmitAwait(c)

Spec == Init /\ [][Next]_vars

\* ------------------------------------ the constructor and the REST calls

\* HydraConnection.__init__, lines 31-34, for the arguments drawn.
HydraConnection__init__ ==
    /\ websocket_url = Unset
    /\ websocket_url' = WebsocketUrl(cfg)
    /\ UNCHANGED <<status, connected, websocket, sock, openedAt, written, nTransports,
                   pstatus, pc, run, snd, dsp, ret, submit, now, nFrames, nCalls, pOpened,
                   pasked, cfg, http, inst>>

RestCall(method, resp) ==
    /\ websocket_url # Unset
    /\ http' = Request(method, resp)
    /\ UNCHANGED <<status, connected, websocket, sock, openedAt, written, nTransports,
                   pstatus, pc, run, snd, dsp, ret, submit, now, nFrames, nCalls, pOpened,
                   pasked, cfg, websocket_url, inst>>

\* HydraProvider.get, lines 182-196.
get(resp) == RestCall("get", resp)

\* HydraProvider.post, lines 198-216.
post(resp) == RestCall("post", resp)

RestInit ==
    /\ FieldsInit
    /\ cfg \in Configs
    /\ websocket_url = Unset
    /\ http = NoHttp
    /\ inst = NoCall

RestNext ==
    \/ HydraConnection__init__
    \/ \E resp \in Responses : get(resp)
    \/ \E resp \in Responses : post(resp)

RestSpec == RestInit /\ [][RestNext]_vars

\* ------------------------------------------- the HydraInstance operations

InstanceCall(rec) ==
    /\ inst' = rec
    /\ UNCHANGED <<status, connected, websocket, sock, openedAt, written, nTransports,
                   pstatus, pc, run, snd, dsp, ret, submit, now, nFrames, nCalls, pOpened,
                   pasked, cfg, websocket_url, http>>

commit_funds(tx_hash, output_index) ==
    InstanceCall(Called("commit_funds", tx_hash, output_index, NoTransaction,
                        commit_funds_result(tx_hash, output_index)))

incremental_commit_funds(tx_hash, output_index) ==
    InstanceCall(Called("incremental_commit_funds", tx_hash, output_index, NoTransaction,
                        incremental_commit_funds_result(tx_hash, output_index)))

commit_blueprint(tx_hash, output_index, transaction) ==
    InstanceCall(Called("commit_blueprint", tx_hash, output_index, transaction,
                        commit_blueprint_result(tx_hash, output_index, transaction)))

incremental_blueprint_commit(tx_hash, output_index, transaction) ==
    InstanceCall(Called("incremental_blueprint_commit", tx_hash, output_index, transaction,
                        incremental_blueprint_commit_result(tx_hash, output_index, transaction)))

decommit(transaction) ==
    InstanceCall(Called("decommit", "", 0, transaction, decommit_result(transaction)))

incremental_decommit(transaction) ==
    InstanceCall(Called("incremental_decommit", "", 0, transaction,
                        incremental_decommit_result(transaction)))

InstanceNext ==
    \/ \E h \in TxHashes, i \in OutputIndexes : commit_funds(h, i)
    \/ \E h \in TxHashes, i \in OutputIndexes : incremental_commit_funds(h, i)
    \/ \E h \in TxHashes, i \in OutputIndexes, tx \in HydraTransactions :
           commit_blueprint(h, i, tx)
    \/ \E h \in TxHashes, i \in OutputIndexes, tx \in HydraTransactions :
           incremental_blueprint_commit(h, i, tx)
    \/ \E tx \in HydraTransactions : decommit(tx)
    \/ \E tx \in HydraTransactions : incremental_decommit(tx)

InstanceSpec == Init /\ [][InstanceNext]_vars

\* The threads take their steps and time passes: a send() that has a step to
\* take takes it, and its sleep ends.
FairSpec ==
    /\ Spec
    /\ \A c \in Callers : WF_vars(SendCheck(c) \/ SendWake(c) \/ SendWrite(c))
    /\ WF_vars(Tick)

\* ---------------------------------------------------------------- claims

InSend(c) == pc[c] \in {"send_check", "send_write", "send_sleep"}

\* send() of thread c has ended with this outcome, and its caller has not yet
\* gone on.
SendEnded(c, outcome) ==
    /\ pc[c] \in {"ret", "submit_await"}
    /\ snd[c].op # "none"
    /\ ret[c].op = snd[c].op
    /\ ret[c].outcome = outcome

\* The time of send's last retry, counted from start_time.
LastRetry == RetryWindow - SleepSeconds

\* C1 (as claimed): the step that delivers, to every message subscriber, a
\* TxValid event with cborHex = P that arrived after submitTx(P) had its
\* NewTx frame written resolves the call to that event's txId.
C1_ValidEventResolvesSubmit ==
    [][\A c \in Callers :
         ( /\ dsp[c].afterSubmit
           /\ pc[c] = "cb_message"
           /\ dsp[c].frame.tag = "TxValid"
           /\ dsp[c].frame.cborHex = submit.cborHex
           /\ dsp'[c].msgTo = MsgHandlers )
         => (submit'.state = "resolved" /\ submit'.value = dsp[c].frame.detail)]_vars

\* C2: a frame's status is set and published to status subscribers only
\* after every message subscriber has been delivered that frame.
C2_MessageBeforeStatus ==
    \A c \in Callers :
        (dsp[c].statusSet \/ dsp[c].statTo # {}) => dsp[c].msgTo = MsgHandlers

C2_Witness ==
    \E c \in Callers :
        /\ dsp[c].frame.tag = "HeadIsOpen"
        /\ dsp[c].msgTo = MsgHandlers
        /\ dsp[c].statusSet
        /\ dsp[c].statTo = StatusHandlers
        /\ status = "OPEN"

\* C3 (as claimed): a send that reports failure never leaves behind a
\* transport that became open within RetryWindow seconds of the call and is
\* still open.
C3_OpenWithinWindowDelivers ==
    \A c \in Callers :
        SendEnded(c, "failed")
        => ~(TransportOpen /\ openedAt[websocket] < snd[c].called + RetryWindow)

\* C3 (amended): a send that reports failure never leaves behind a transport
\* that became open before the second of its last retry and is still open.
C3_OpenBeforeLastRetryDelivers ==
    \A c \in Callers :
        SendEnded(c, "failed")
        => ~(TransportOpen /\ openedAt[websocket] < snd[c].start + LastRetry)

C3_Witness ==
    \E c \in Callers :
        /\ SendEnded(c, "sent")
        /\ snd[c].start # NoTime
        /\ snd[c].k > 2
        /\ TransportOpen
        /\ openedAt[websocket] > snd[c].called
        /\ openedAt[websocket] < snd[c].start + LastRetry

\* What send() keeps to at every instant: at most one immediate attempt and
\* RetryWindow retries, the k-th retry no earlier than k - 1 seconds after
\* start_time, no longer than RetryWindow seconds in the loop, and a failure
\* reported only after RetryWindow seconds, all attempts made and no frame
\* written.
SendBounded ==
    \A c \in Callers :
        /\ snd[c].k <= RetryWindow + 1
        /\ (InSend(c) /\ snd[c].start # NoTime) => now - snd[c].start <= RetryWindow
        /\ (pc[c] = "send_check" /\ snd[c].start # NoTime)
               => now - snd[c].start >= (snd[c].k - 1) * SleepSeconds
        /\ SendEnded(c, "failed")
               => /\ snd[c].k = RetryWindow + 1
                  /\ now - snd[c].start >= RetryWindow
                  /\ ~snd[c].wrote
        /\ SendEnded(c, "sent") => snd[c].wrote

\* C4: send() always ends; with no transport open it makes its immediate
\* attempt and at most one retry a second for RetryWindow seconds, and then
\* returns having reported the failure and written nothing.
C4_SendTerminatesBounded ==
    /\ []SendBounded
    /\ \A c \in Callers : InSend(c) ~> ~InSend(c)

C4_Witness ==
    \E c \in Callers :
        /\ SendEnded(c, "failed")
        /\ snd[c].k = RetryWindow + 1
        /\ now - snd[c].start = RetryWindow
        /\ ~snd[c].wrote

\* C5 (as claimed): no send() ends by raising.
C5_SendNeverRaises ==
    \A c \in Callers : ~SendEnded(c, "raised")

\* C6 (as claimed): while the status is neither IDLE nor DISCONNECTED no
\* step creates a transport, replaces the handle or changes the status by
\* way of connect().
C6_ConnectNoOpUnlessIdle ==
    [][status \notin {"IDLE", "DISCONNECTED"}
         => (nTransports' = nTransports /\ websocket' = websocket)]_vars

InConnect(c) ==
    pc[c] \in {"connect_status", "run_forever", "cb_open", "cb_open_status",
               "cb_message", "cb_status", "cb_done", "cb_error", "cb_close_flag"}

\* C8 (as claimed): while a transport is open, the thread that called
\* connect() for it is not inside that call any more.
C8_ConnectReturnsWhileRunning ==
    \A t \in Transports :
        sock[t] = "open" => \A c \in Callers : ~(InConnect(c) /\ run[c] = t)

\* C9 (as claimed): when connect() returns for a transport that had opened,
\* the status is CONNECTED and the connected flag is true.
C9_ConnectedAfterConnect ==
    \A c \in Callers :
        (pc[c] = "ret_connect" /\ openedAt[run[c]] # NoTime)
        => (status = "CONNECTED" /\ connected)

\* C10 (as claimed): when a disconnect() that did not find the status IDLE
\* returns, the status is IDLE, the flag is false and the handle is None.
C10_DisconnectReleases ==
    \A c \in Callers :
        (pc[c] = "ret" /\ ret[c].op = "disconnect" /\ ret[c].outcome = "returned")
        => (status = "IDLE" /\ ~connected /\ websocket = NoTransport)

\* C11: a disconnect() called with the status IDLE returns at once; it
\* touches no transport and leaves the status, the flag and the handle as
\* they were.
C11_DisconnectIdleNoOp ==
    [][\A c \in Callers :
         (status = "IDLE" /\ pc[c] = "idle" /\ ret'[c].op = "disconnect")
         => /\ pc'[c] = "ret"
            /\ UNCHANGED <<status, connected, websocket, sock, written, nTransports>>]_vars

\* The no-op disconnect() with a handle already set (a connect() is between
\* its lines 50 and 51).
C11_Witness ==
    \E c \in Callers :
        /\ pc[c] = "ret"
        /\ ret[c].op = "disconnect"
        /\ ret[c].outcome = "noop"
        /\ status = "IDLE"
        /\ websocket # NoTransport

\* C12 (as claimed): with the status DISCONNECTED (on_close has fired), a
\* call of the Provider's connect() creates a new transport.
C12_ProviderReconnects ==
    [][(/\ status = "DISCONNECTED"
        /\ pc[LoopThread] = "idle"
        /\ ret'[LoopThread].op = "provider_connect")
       => nTransports' = nTransports + 1]_vars

\* C13 (as claimed): the delivery of a TxValid or TxInvalid event with
\* cborHex = P that arrived after submitTx(P) had its NewTx frame written
\* resolves the
\* call with that event's txId or validationError if it is not yet
\* resolved, and changes nothing if it is.
C13_FirstMatchResolvesOnce ==
    [][\A c \in Callers :
         ( /\ dsp[c].afterSubmit
           /\ pc[c] = "cb_message"
           /\ dsp[c].frame.tag \in {"TxValid", "TxInvalid"}
           /\ dsp[c].frame.cborHex = submit.cborHex
           /\ dsp'[c].msgTo = MsgHandlers )
         => IF submit.state \in {"resolved", "rejected"}
            THEN submit' = submit
            ELSE /\ submit'.state \in {"resolved", "rejected"}
                 /\ submit'.value = dsp[c].frame.detail]_vars

\* C15 (as claimed): a lifecycle command that has ended has returned
\* normally; if its immediate attempt found the transport open it has
\* written its frame, and a frame it has written carries the command's own
\* tag.
C15_CommandWritesOneFrame ==
    \A c \in Callers :
        (pc[c] = "ret" /\ ret[c].op \in LifecycleCommands)
        => /\ ret[c].outcome \in {"sent", "failed"}
           /\ snd[c].start = NoTime => (ret[c].outcome = "sent" /\ snd[c].wrote)
           /\ snd[c].wrote => snd[c].data = CommandTag(ret[c].op)

\* C16: the dispatch of a decoded frame whose tag implies no status leaves
\* the status as it is and publishes nothing on the status channel, and,
\* when no handler raises, delivers the frame to every message subscriber.
C16_NoStatusFramePassesThrough ==
    [][\A c \in Callers :
         ( /\ pc[c] \in {"cb_message", "cb_status"}
           /\ pc'[c] # pc[c]
           /\ Decodes(dsp[c].frame)
           /\ hydra_status(dsp[c].frame.tag) = "" )
         => /\ status' = status
            /\ ~dsp'[c].statusSet
            /\ dsp'[c].statTo = {}
            /\ dsp'[c].frame = dsp[c].frame
            /\ pc'[c] = "cb_status" => dsp'[c].msgTo = MsgHandlers
            /\ pc[c] = "cb_status" => pc'[c] = "cb_done"]_vars

C16_Witness ==
    \E c \in Callers :
        /\ pc[c] = "cb_done"
        /\ dsp[c].frame.tag = "Greetings"
        /\ dsp[c].msgTo = MsgHandlers
        /\ ~dsp[c].statusSet
        /\ dsp[c].statTo = {}
        /\ status = "CONNECTED"

\* C17: a frame that is not JSON is dropped: its dispatch publishes nothing
\* on either channel, leaves the status, the flag, the handle and the
\* socket as they are, and ends in run_forever reading on, not in on_error.
C17_UnparseableFrameDropped ==
    [][\A c \in Callers :
         ( /\ pc[c] \in {"cb_message", "cb_done"}
           /\ pc'[c] # pc[c]
           /\ dsp[c].frame.tag = "garbage" )
         => /\ UNCHANGED <<status, connected, websocket, sock>>
            /\ dsp'[c].msgTo = {}
            /\ dsp'[c].statTo = {}
            /\ ~dsp'[c].statusSet
            /\ pc[c] = "cb_message" => pc'[c] = "cb_done"
            /\ pc[c] = "cb_done" => pc'[c] = "run_forever"]_vars

\* The callback has ended on a frame that is not JSON, with the connection
\* open and the session as on_open left it: a later frame can be received.
C17_Witness ==
    \E c \in Callers :
        /\ pc[c] = "cb_done"
        /\ dsp[c].frame.tag = "garbage"
        /\ dsp[c].msgTo = {}
        /\ nFrames < MaxFrames
        /\ sock[run[c]] = "open"
        /\ status = "CONNECTED"
        /\ connected

\* C18 (as claimed): when the dispatch of a decoded frame has ended, every
\* message subscriber has been delivered the frame and, if its tag implies
\* a status, the status has been set and its publication begun, whether or
\* not a message handler failed on the way.
C18_HandlerFailureIsolated ==
    \A c \in Callers :
        ( /\ pc[c] \in {"cb_done", "cb_error"}
          /\ dsp[c].frame # NoFrame
          /\ Decodes(dsp[c].frame) )
        => /\ dsp[c].msgTo = MsgHandlers
           /\ ImpliesStatus(hydra_status(dsp[c].frame.tag))
                  => dsp[c].statusSet

\* C19 (as claimed): once a handler has been handed to the Provider's
\* on_message, a frame delivered to the message subscribers is delivered to
\* it; once one has been handed to on_status_change, a status published to
\* the status subscribers is published to it.
C19_ProviderHandlersReceive ==
    [][\A c \in Callers :
         /\ ( /\ "onmessage" \in pasked
              /\ pc[c] = "cb_message"
              /\ pc'[c] = "cb_status" )
            => ProviderHandler \in dsp'[c].msgTo
         /\ ( /\ "onstatuschange" \in pasked
              /\ pc[c] = "cb_status"
              /\ dsp'[c].statTo = StatusHandlers )
            => ProviderHandler \in dsp'[c].statTo]_vars

\* No transport is alive and no connect() or disconnect() is under way.
NoneAlive ==
    /\ \A t \in Transports : sock[t] \in {"none", "closed"}
    /\ \A c \in Callers : pc[c] \notin {"connect_status", "disc_status", "disc_flag"}

\* The step is the call of connect() or of disconnect() by some caller.
ExplicitCall ==
    \E c \in Callers :
        /\ pc[c] = "idle"
        /\ ret'[c].op \in {"connect", "provider_connect", "disconnect"}

\* C20: a closed socket stays closed; only a call of connect() creates a
\* transport or replaces the handle (send's retries do not); and once
\* on_close has left the status DISCONNECTED with no transport alive, the
\* status stays DISCONNECTED until a call of connect() or disconnect().
C20_NoAutomaticReconnect ==
    [][/\ \A t \in Transports : sock[t] = "closed" => sock'[t] = "closed"
       /\ (nTransports' # nTransports \/ websocket' # websocket)
              => \E c \in Callers :
                     pc[c] = "idle" /\ ret'[c].op \in {"connect", "provider_connect"}
       /\ (status = "DISCONNECTED" /\ NoneAlive)
              => (status' = "DISCONNECTED" \/ ExplicitCall)]_vars

\* The transport has closed and a send() is in its retry loop, past its
\* second attempt, with the status still DISCONNECTED.
C20_Witness ==
    /\ status = "DISCONNECTED"
    /\ nTransports >= 1
    /\ NoneAlive
    /\ \E c \in Callers : InSend(c) /\ snd[c].k >= 3 /\ now >= 2

\* The transports whose socket is being opened or is open.
Live == {t \in Transports : sock[t] \in {"init", "open"}}

\* C21 (as claimed): at most one transport is opening or open at any
\* instant.
C21_AtMostOneLiveTransport == Cardinality(Live) <= 1

\* C22 (as claimed): the frame a new_tx(P) call has written is a NewTx
\* frame whose transaction has the four fields type, description, cborHex
\* and txId, with cborHex = P.
C22_NewTxFrameFields ==
    \A c \in Callers :
        (pc[c] = "ret" /\ ret[c].op = "new_tx" /\ snd[c].wrote)
        => /\ snd[c].data.tag = "NewTx"
           /\ snd[c].data.keys = HydraTransactionFields
           /\ snd[c].data.cborHex \in TxPayloads

\* The URL the claim describes: only the scheme of the base URL replaced.
ReplaceScheme(u) == [i \in 1..Len(u) |-> IF i = 1 /\ u[i] = "http" THEN "ws" ELSE u[i]]

DuplexUrl(a) ==
    (IF Truthy(a.ws_url) THEN a.ws_url ELSE ReplaceScheme(a.http_url))
    \o <<"/?", "history=", IF a.history THEN "yes" ELSE "no">>
    \o (IF Truthy(a.address) THEN <<"&address=">> \o a.address ELSE <<>>)

\* C23 (as claimed): the URL of a constructed session is the base URL with
\* only its scheme replaced (or the override), then /?history=yes or
\* /?history=no, then &address=<addr> exactly when an address was given.
C23_DuplexUrl == websocket_url # Unset => websocket_url = DuplexUrl(cfg)

\* The body is somewhere in what the error wraps.
Carries(err, body) == \E i \in 1..Len(err) : err[i] = body

\* C24 (as claimed): get/post return the JSON body exactly for a 200 or
\* 202 response; every other response and every network failure ends in an
\* error raised, and for a response that is not 200/202 the error carries
\* the response's body, if it has one.
C24_RestOutcome ==
    http.method # "none"
    => /\ http.outcome \in {"returned", "raised"}
       /\ http.outcome = "returned"
              => /\ http.resp.kind = "response"
                 /\ http.resp.status_code \in SuccessCodes
                 /\ http.value = <<http.resp.body>>
       /\ (http.resp.kind = "response" /\ http.resp.status_code \in SuccessCodes
              /\ IsJson(http.resp.body))
              => http.outcome = "returned"
       /\ (http.resp.kind = "response" /\ http.resp.status_code \notin SuccessCodes
              /\ http.resp.body # "")
              => Carries(http.value, http.resp.body)

\* C27 (as claimed): once a TxValid or TxInvalid event for the submitted
\* transaction, arrived after submitTx's NewTx frame was written, has been
\* delivered to every message subscriber, the submitTx call is settled
\* (resolved or rejected): no matching event is missed.
C27_NoMatchingEventMissed ==
    \A c \in Callers :
        ( /\ dsp[c].afterSubmit
          /\ dsp[c].frame.tag \in {"TxValid", "TxInvalid"}
          /\ dsp[c].frame.cborHex = submit.cborHex
          /\ dsp[c].msgTo = MsgHandlers )
        => submit.state \in {"resolved", "rejected"}

\* C25 (as claimed): disconnect() was called on a connected session and has
\* returned, the transport's _on_close has run to its end, and nothing else
\* is in progress: the status is IDLE.
C25_IdleAfterDisconnectAndClose ==
    \A c \in Callers :
        ( /\ pc[c] = "ret"
          /\ ret[c].op = "disconnect"
          /\ ret[c].outcome = "returned"
          /\ ret[c].at = "CONNECTED"
          /\ websocket = ret[c].t
          /\ sock[ret[c].t] = "closed"
          /\ \A d \in Callers \ {c} : pc[d] \in {"idle", "ret"} )
        => status = "IDLE"

\* C26 (as claimed): while a disconnect() that was called during the
\* handshake (status CONNECTING) has returned and connect() has not been
\* called again, no step of the transport it was called on (still opening
\* or open, line 90 having found no socket to close) makes the status
\* CONNECTED, sets the connected flag, or delivers an inbound message to a
\* subscriber.
C26_QuietAfterDisconnect ==
    [][\A c \in Callers :
         ( /\ pc[c] = "ret"
           /\ ret[c].op = "disconnect"
           /\ ret[c].outcome = "returned"
           /\ ret[c].at = "CONNECTING"
           /\ websocket = ret[c].t
           /\ websocket' = websocket
           /\ ret[c].t \in Live )
         => /\ status' = "CONNECTED" => status = "CONNECTED"
            /\ connected' => connected
            /\ \A d \in Callers : dsp'[d].msgTo \subseteq dsp[d].msgTo]_vars

\* C28 (as claimed): the provider's status is CONNECTED only while the
\* session's status is neither IDLE nor DISCONNECTED.
C28_ProviderStatusConsistent ==
    pstatus = "CONNECTED" => status \notin {"IDLE", "DISCONNECTED"}

\* C29 (as claimed): the connected flag is true only while the status is
\* neither IDLE nor DISCONNECTED.
C29_FlagImpliesStatus ==
    connected => status \notin {"IDLE", "DISCONNECTED"}

\* A step in which process_status emits "onstatuschange" (line 105).
StatusPublished == \E c \in Callers : dsp'[c].statusSet /\ ~dsp[c].statusSet

\* C30 (as claimed): a step changes the session's status exactly when it
\* publishes the status to the status channel.
C30_StatusChannelTracksStatus ==
    [][(status' # status) <=> StatusPublished]_vars

\* C31: the step of _on_error leaves the connected flag false and changes
\* neither the status nor the transport handle, closes no socket, writes no
\* frame, and delivers nothing to a message or status subscriber.
C31_OnErrorOnlyMarksNotConnected ==
    [][\A c \in Callers :
         (pc[c] = "cb_error" /\ pc'[c] # "cb_error")
         => /\ ~connected'
            /\ status' = status
            /\ websocket' = websocket
            /\ sock' = sock
            /\ written' = written
            /\ nTransports' = nTransports
            /\ \A d \in Callers : /\ dsp'[d].msgTo \subseteq dsp[d].msgTo
                                  /\ dsp'[d].statTo \subseteq dsp[d].statTo]_vars

\* connect() is the only call made so far; its transport was open with the
\* status CONNECTED, broke, and _on_error has run: the flag is false, the
\* status is still CONNECTED.
C31_Witness ==
    \E c \in Callers :
        /\ nCalls = 1
        /\ pc[c] = "run_forever"
        /\ sock[run[c]] = "closing"
        /\ websocket = run[c]
        /\ status = "CONNECTED"
        /\ ~connected

\* The result of the base operation of op for the arguments of call rec.
BaseResult(rec) ==
    CASE rec.op = "incremental_commit_funds"
           -> commit_funds_result(rec.tx_hash, rec.output_index)
      [] rec.op = "incremental_blueprint_commit"
           -> commit_blueprint_result(rec.tx_hash, rec.output_index, rec.transaction)
      [] rec.op = "incremental_decommit" -> decommit_result(rec.transaction)

\* C32 (as claimed): an incremental operation ends exactly as its base
\* operation does for the same arguments: same outcome, same value.
C32_IncrementalAsBase ==
    inst.op \in {"incremental_commit_funds", "incremental_blueprint_commit",
                 "incremental_decommit"}
    => /\ inst.outcome = BaseResult(inst).outcome
       /\ inst.value = BaseResult(inst).value

====
